---- MODULE Spec2Model ----
(***************************************************************************)
(* A model of the world-state update protocol of llama_hack:               *)
(*   - the chat() request handler of src/chat_app.py (extractor, mutator,  *)
(*     session / file dual store), run by concurrent request threads;      *)
(*   - the mutator of chat() taken alone, applied to sequences of          *)
(*     directives;                                                         *)
(*   - extract_world_updates and the reply cleaning, applied to texts;     *)
(*   - DynamicKnowledgeUpdater of src/dynamic_updater.py;                  *)
(*   - character selection (src/choose_character.py and the save-character *)
(*     endpoint) and reset_chat;                                           *)
(*   - ChatInterface of src/chat_interface.py with its StoryGenerator.     *)
(*                                                                         *)
(* Conventions.  Python None (and JSON null) is the string None.  A key    *)
(* that a dict lacks is the string Absent (scalars) or a has_<key> flag    *)
(* (lists).  A file that may not exist, or a value that may not be there,  *)
(* is a sequence of length 0 or 1.  A text is a sequence of tokens; the    *)
(* two delimiters, white space, a word and the JSON payloads are tokens.   *)
(***************************************************************************)
EXTENDS Integers, Sequences, FiniteSets, TLC

VARIABLES
    \* ---- the files and the client's session cookie
    dynFile,        \* knowledge_base/dynamic_world_knowledge.json: <<>> or <<doc>>
    histFile,       \* knowledge_base/chat_history.json: <<>> or <<list of messages>>
    cookie,         \* the session as the client holds it: <<>> (no key) or <<list>>
    dynWriter,      \* the number of the chat request that last wrote dynFile (0: none)
    \* ---- the chat() handler
    turn,           \* per request thread: the locals of chat() and its position
    nTurns,         \* requests started so far
    resetAt,        \* nTurns when reset_chat last completed (-1: never)
    \* ---- the mutator taken alone
    mDoc,           \* the document the directives are applied to
    mPrev,          \* the document before the last directive
    mPrev2,         \* the document before the last two directives
    mLast,          \* the last directive applied (<<>> before the first)
    mLast2,         \* the one before it
    nApplied,       \* directives applied so far
    \* ---- the extractor taken alone
    text,           \* the model's reply
    extracted,      \* <<>> or <<[world_updates, clean_response]>>
    \* ---- DynamicKnowledgeUpdater
    updater,        \* <<>> or <<self.dynamic_knowledge>>
    assignedIds,    \* every (creation number, id) given to a branch so far
    nUpdates,       \* calls of update_based_on_user_response so far
    \* ---- ChatInterface
    generator,      \* <<>> or <<the StoryGenerator's self.dynamic_knowledge>>
    session_character,      \* self.current_character of the ChatInterface
    conversation_history,   \* self.conversation_history
    story_progress, \* self.story_progress
    logFile,        \* the conversation log: <<>> or <<what quit wrote>>
    returned        \* the outcome of the last call of process_user_input

fileVars == <<dynFile, histFile, cookie, dynWriter>>
turnVars == <<turn, nTurns, resetAt>>
mutVars  == <<mDoc, mPrev, mPrev2, mLast, mLast2, nApplied>>
extVars  == <<text, extracted>>
updVars  == <<updater, assignedIds, nUpdates>>
ifaceVars == <<generator, session_character, conversation_history, story_progress, logFile,
               returned>>
vars == <<dynFile, histFile, cookie, dynWriter, turn, nTurns, resetAt, mDoc, mPrev, mPrev2, mLast,
          mLast2, nApplied, text, extracted, updater, assignedIds, nUpdates, generator,
          session_character, conversation_history, story_progress, logFile, returned>>

----------------------------------------------------------------------------
(* Bounds of the model.                                                    *)
MaxTurns   == 3     \* chat requests started, one at a time
MaxRaceTurns == 3   \* chat requests started, two at a time
MaxApply   == 2     \* directives applied by the mutator taken alone
MaxTextLen == 6     \* tokens of a reply given to the extractor taken alone
MaxUpdates == 3     \* updater calls
MaxPriorTurns == 6  \* earlier turns in the session of a request
MaxPromptTurns == 1 \* chat requests on such a session
MaxEntries == 4     \* entries of a ChatInterface conversation

----------------------------------------------------------------------------
(* Values and sequences.                                                   *)
None   == "<None>"
Absent == "<absent>"

Range(s) == {s[i] : i \in 1..Len(s)}

NoDuplicates(s) == \A i, j \in 1..Len(s) : s[i] = s[j] => i = j

\* list.index of the first occurrence, 0 when there is none
FirstIndex(s, x) ==
    IF x \in Range(s) THEN CHOOSE i \in 1..Len(s) : s[i] = x /\ \A j \in 1..(i-1) : s[j] # x
    ELSE 0

\* list.remove(x): drops the first occurrence (the caller has checked x in s)
ListRemove(s, x) ==
    LET i == FirstIndex(s, x)
    IN  IF i = 0 THEN s ELSE SubSeq(s, 1, i-1) \o SubSeq(s, i+1, Len(s))

IsPrefix(s, t) == Len(s) <= Len(t) /\ SubSeq(t, 1, Len(s)) = s

----------------------------------------------------------------------------
(* The Dynamic World Document.                                             *)
(*                                                                         *)
(* A character record keeps the keys the handlers read or write: name      *)
(* (None when the record has no name), items and skills_or_powers (lists,  *)
(* each with a flag telling whether the key is there), current_location    *)
(* (Absent until a location_change sets it), and the two free-text fields  *)
(* of the updater, each the sequence of the lines appended to it.          *)
Character(name, has_items, items, has_skills, skills) ==
    [name |-> name,
     has_items |-> has_items, items |-> items,
     has_skills |-> has_skills, skills_or_powers |-> skills,
     current_location |-> Absent,
     emotional_state_trends |-> <<>>,
     character_arc |-> <<>>]

\* char.get("items", []) and char.get("skills_or_powers", [])
ItemsOf(c)  == IF c.has_items THEN c.items ELSE <<>>
SkillsOf(c) == IF c.has_skills THEN c.skills_or_powers ELSE <<>>

\* The document written at character selection: the characters of the
\* knowledge graph, a fresh user block, beside the characters the lists of
\* their skills and of their items, the storyline's events, and no
\* alternative_endings key.
NewDynamicWorld(characters, character_name, language) ==
    [user |-> [language |-> language, character_played |-> character_name],
     characters |-> characters,
     skills_or_powers |-> [i \in 1..Len(characters) |-> SkillsOf(characters[i])],
     items |-> [i \in 1..Len(characters) |-> ItemsOf(characters[i])],
     main_events |-> <<>>,
     has_alternative_endings |-> FALSE,
     alternative_endings |-> <<>>]

\* A lookup loop without its break: the last record of the name is the one
\* left changed.
FindLastCharacter(characters, char_name) ==
    IF \E i \in 1..Len(characters) : characters[i].name = char_name
    THEN CHOOSE i \in 1..Len(characters) :
            /\ characters[i].name = char_name
            /\ \A j \in (i+1)..Len(characters) : characters[j].name # char_name
    ELSE 0

\* A lookup that compares names without regard to case.
LowerCase(name) ==
    CASE name = "Harry" -> "harry" [] name = "Ron" -> "ron" [] name = "Draco" -> "draco"
      [] OTHER -> name
FindCharacterIgnoringCase(characters, char_name) ==
    IF \E i \in 1..Len(characters) : LowerCase(characters[i].name) = LowerCase(char_name)
    THEN CHOOSE i \in 1..Len(characters) :
            /\ LowerCase(characters[i].name) = LowerCase(char_name)
            /\ \A j \in 1..(i-1) : LowerCase(characters[j].name) # LowerCase(char_name)
    ELSE 0

\* for char in characters: if char.get("name") == char_name: ... break
\* The index of the first record of that name, 0 when no record has it.
FindCharacter(characters, char_name) ==
    IF \E i \in 1..Len(characters) : characters[i].name = char_name
    THEN CHOOSE i \in 1..Len(characters) :
            /\ characters[i].name = char_name
            /\ \A j \in 1..(i-1) : characters[j].name # char_name
    ELSE 0

\* A change of a record that is copied to the lists kept beside the records.
WithCharacterAndAggregates(dw, i, c) ==
    [dw EXCEPT !.characters = [dw.characters EXCEPT ![i] = c],
               !.items = [dw.items EXCEPT ![i] = ItemsOf(c)],
               !.skills_or_powers = [dw.skills_or_powers EXCEPT ![i] = SkillsOf(c)]]

\* char["items"].append(...), char["current_location"] = ...: the record in
\* the characters list of the loaded document is the one changed
WithCharacter(dw, i, c) ==
    [dw EXCEPT !.characters = [dw.characters EXCEPT ![i] = c]]

----------------------------------------------------------------------------
(* The World Mutator of chat(): one operator per branch of the update_type *)
(* switch.  dw is dynamic_world, wu the decoded directive; a field the     *)
(* directive lacks reads None (world_updates.get).                         *)

\* A mis-written item_acquired that appends without the membership test.
item_acquired_unchecked(dw, wu) ==
    LET i == FindCharacter(dw.characters, wu.character)
    IN  IF i = 0 THEN dw
        ELSE LET c == dw.characters[i]
             IN  WithCharacter(dw, i,
                    [c EXCEPT !.has_items = TRUE, !.items = Append(ItemsOf(c), wu.item)])

item_acquired(dw, wu) ==
    LET i == FindCharacter(dw.characters, wu.character)
    IN  IF i = 0 THEN dw
        ELSE LET c == dw.characters[i]
                 items == ItemsOf(c)         \* "items" not in char: char["items"] = []
             IN  WithCharacter(dw, i,
                    [c EXCEPT !.has_items = TRUE,
                              !.items = IF wu.item \in Range(items) THEN items
                                        ELSE Append(items, wu.item)])

\* A mis-written item_lost that finds the character and removes nothing.
item_lost_keeps(dw, wu) == dw

item_lost(dw, wu) ==
    LET i == FindCharacter(dw.characters, wu.character)
    IN  IF i = 0 THEN dw
        ELSE LET c == dw.characters[i]
             IN  IF c.has_items /\ wu.item \in Range(c.items)
                 THEN WithCharacter(dw, i, [c EXCEPT !.items = ListRemove(c.items, wu.item)])
                 ELSE dw

skill_acquired(dw, wu) ==
    LET i == FindCharacter(dw.characters, wu.character)
    IN  IF i = 0 THEN dw
        ELSE LET c == dw.characters[i]
                 skills == SkillsOf(c)
             IN  WithCharacter(dw, i,
                    [c EXCEPT !.has_skills = TRUE,
                              !.skills_or_powers = IF wu.skill \in Range(skills) THEN skills
                                                   ELSE Append(skills, wu.skill)])

skill_lost(dw, wu) ==
    LET i == FindCharacter(dw.characters, wu.character)
    IN  IF i = 0 THEN dw
        ELSE LET c == dw.characters[i]
             IN  IF c.has_skills /\ wu.skill \in Range(c.skills_or_powers)
                 THEN WithCharacter(dw, i,
                        [c EXCEPT !.skills_or_powers = ListRemove(c.skills_or_powers, wu.skill)])
                 ELSE dw

location_change(dw, wu) ==
    LET i == FindCharacter(dw.characters, wu.character)
    IN  IF i = 0 THEN dw
        ELSE WithCharacter(dw, i, [dw.characters[i] EXCEPT !.current_location = wu.location])

KnownUpdateTypes ==
    {"item_acquired", "item_lost", "skill_acquired", "skill_lost", "location_change"}

\* The if / elif chain on update_type; any other value falls through.
apply_world_updates(dw, wu) ==
    CASE wu.update_type = "item_acquired"   -> item_acquired(dw, wu)
      [] wu.update_type = "item_lost"       -> item_lost(dw, wu)
      [] wu.update_type = "skill_acquired"  -> skill_acquired(dw, wu)
      [] wu.update_type = "skill_lost"      -> skill_lost(dw, wu)
      [] wu.update_type = "location_change" -> location_change(dw, wu)
      [] OTHER                              -> dw

----------------------------------------------------------------------------
(* JSON values as json.loads returns them.  An object is the directive it  *)
(* holds; truthy tells how Python's "if world_updates:" reads the value.   *)
JsonObject(update_type, character, item, skill, location) ==
    [kind |-> "object", truthy |-> TRUE, update_type |-> update_type,
     character |-> character, item |-> item, skill |-> skill, location |-> location]

JsonOther(kind, truthy) ==
    [kind |-> kind, truthy |-> truthy, update_type |-> None,
     character |-> None, item |-> None, skill |-> None, location |-> None]

PyNone      == JsonOther("null", FALSE)      \* None, and what JSON null decodes to
EmptyObject == JsonOther("object", FALSE)     \* {}

----------------------------------------------------------------------------
(* The mutator taken alone: directives applied one after the other to a    *)
(* document, as successive chat turns of one thread apply them.            *)

\* Documents the mutator may be given.  The lists of a character come from
\* the knowledge graph (model output, copied as it is at selection) and from
\* DynamicKnowledgeUpdater, which extends items without a membership test:
\* they may hold an entry twice, a key may be missing, two records may share
\* a name and a record may have none.
DocPlain ==
    NewDynamicWorld(<<Character("Harry", TRUE, <<"wand">>, TRUE, <<>>),
                      Character("Ron", FALSE, <<>>, FALSE, <<>>)>>, "Harry", "English")
DocRepeated ==
    NewDynamicWorld(<<Character("Harry", TRUE, <<"wand", "cloak", "wand">>, TRUE, <<"cloak", "cloak">>),
                      Character("Ron", TRUE, <<>>, TRUE, <<"wand">>)>>, "Ron", "English")
DocSameName ==
    NewDynamicWorld(<<Character("Harry", TRUE, <<"cloak">>, FALSE, <<>>),
                      Character("Harry", TRUE, <<"wand">>, TRUE, <<"wand">>),
                      Character(None, FALSE, <<>>, TRUE, <<>>)>>, "Harry", "English")
InitialDocuments == {DocPlain, DocRepeated, DocSameName}

\* The directives: every update type, known or not or missing, with the
\* character and the value present, unknown or missing.
DirectiveCharacters == {"Harry", "Ron", "harry", None}
DirectiveValues     == {"wand", "cloak", None}
Directives ==
    {JsonObject(ty, ch, v, None, None) :
        ty \in {"item_acquired", "item_lost"}, ch \in DirectiveCharacters, v \in DirectiveValues}
    \cup {JsonObject(ty, ch, None, v, None) :
        ty \in {"skill_acquired", "skill_lost"}, ch \in DirectiveCharacters, v \in DirectiveValues}
    \cup {JsonObject("location_change", ch, None, None, v) :
        ch \in DirectiveCharacters, v \in {"Hogwarts", None}}
    \cup {JsonObject(ty, ch, "wand", None, None) :
        ty \in {"quest_started", None}, ch \in {"Harry", "harry"}}

MutatorIdle ==
    /\ mDoc = DocPlain /\ mPrev = DocPlain /\ mPrev2 = DocPlain
    /\ mLast = <<>> /\ mLast2 = <<>> /\ nApplied = 0

MutatorInit ==
    /\ mDoc \in InitialDocuments
    /\ mPrev = mDoc /\ mPrev2 = mDoc
    /\ mLast = <<>> /\ mLast2 = <<>> /\ nApplied = 0

\* One turn's "if world_updates:" block on the document of the turn before.
ApplyDirective(wu) ==
    /\ nApplied < MaxApply
    /\ mDoc' = apply_world_updates(mDoc, wu)
    /\ mPrev' = mDoc
    /\ mPrev2' = mPrev
    /\ mLast' = <<wu>>
    /\ mLast2' = mLast
    /\ nApplied' = nApplied + 1

----------------------------------------------------------------------------
(* The Update Extractor and the reply cleaning.                            *)
BEGIN == "[WORLD_UPDATE]"
END   == "[/WORLD_UPDATE]"
WS    == " "

\* The JSON payloads a reply may carry between the delimiters, each one token.
ObjAcquireWand  == "{item_acquired,Harry,wand}"
ObjAcquireCloak == "{item_acquired,Harry,cloak}"
ObjLoseWand     == "{item_lost,Harry,wand}"
ObjMoveStranger == "{location_change,harry,Hogwarts}"
ObjQuest        == "{quest_started,Harry,wand}"
ObjNoItem       == "{item_acquired,Harry}"
ObjEmpty        == "{}"
JsonList        == "[1]"
JsonNull        == "null"

\* str.strip(): white space dropped at both ends
RECURSIVE LStrip(_)
LStrip(t) == IF t # <<>> /\ Head(t) = WS THEN LStrip(Tail(t)) ELSE t
RECURSIVE RStrip(_)
RStrip(t) == IF t # <<>> /\ t[Len(t)] = WS THEN RStrip(SubSeq(t, 1, Len(t) - 1)) ELSE t
Strip(t) == RStrip(LStrip(t))

\* json.loads: <<value>>, or <<>> when it raises.  Anything but exactly one
\* payload (a word, two payloads, a delimiter, nothing) is not JSON.
json_loads(t) ==
    IF Len(t) # 1 THEN <<>>
    ELSE CASE t[1] = ObjAcquireWand  -> <<JsonObject("item_acquired", "Harry", "wand", None, None)>>
           [] t[1] = ObjAcquireCloak -> <<JsonObject("item_acquired", "Harry", "cloak", None, None)>>
           [] t[1] = ObjLoseWand     -> <<JsonObject("item_lost", "Harry", "wand", None, None)>>
           [] t[1] = ObjMoveStranger -> <<JsonObject("location_change", "harry", None, None, "Hogwarts")>>
           [] t[1] = ObjQuest        -> <<JsonObject("quest_started", "Harry", "wand", None, None)>>
           [] t[1] = ObjNoItem       -> <<JsonObject("item_acquired", "Harry", None, None, None)>>
           [] t[1] = ObjEmpty        -> <<EmptyObject>>
           [] t[1] = JsonList        -> <<JsonOther("array", TRUE)>>
           [] t[1] = JsonNull        -> <<PyNone>>
           [] OTHER                  -> <<>>

\* re.search of \[WORLD_UPDATE\](.*?)\[/WORLD_UPDATE\] with DOTALL, from
\* position from on: the leftmost begin token that has an end token after
\* it, up to the first end token after it.  <<>> when there is no match.
re_search(t, from) ==
    LET starts == {b \in from..Len(t) : t[b] = BEGIN /\ \E e \in (b+1)..Len(t) : t[e] = END}
    IN  IF starts = {} THEN <<>>
        ELSE LET b == CHOOSE x \in starts : \A y \in starts : x <= y
                 e == CHOOSE x \in (b+1)..Len(t) :
                         t[x] = END /\ \A y \in (b+1)..(x-1) : t[y] # END
             IN  <<[start |-> b, end |-> e]>>

\* A re.sub given count=1: only the first match is removed.
re_sub_first(t, from) ==
    LET m == re_search(t, from)
    IN  IF m = <<>> THEN SubSeq(t, from, Len(t))
        ELSE SubSeq(t, from, m[1].start - 1) \o SubSeq(t, m[1].end + 1, Len(t))

\* re.sub(pattern, '', text): every non-overlapping match removed, left to right
RECURSIVE re_sub(_, _)
re_sub(t, from) ==
    LET m == re_search(t, from)
    IN  IF m = <<>> THEN SubSeq(t, from, Len(t))
        ELSE SubSeq(t, from, m[1].start - 1) \o re_sub(t, m[1].end + 1)

\* An extractor that takes the last complete block instead of the first.
extract_last_block(t) ==
    LET ends == {e \in 1..Len(t) : t[e] = END /\ \E b \in 1..(e-1) : t[b] = BEGIN}
    IN  IF ends = {} THEN PyNone
        ELSE LET e == CHOOSE x \in ends : \A y \in ends : y <= x
                 b == CHOOSE x \in 1..(e-1) : t[x] = BEGIN /\ \A y \in (x+1)..(e-1) : t[y] # BEGIN
                 v == json_loads(Strip(SubSeq(t, b + 1, e - 1)))
             IN  IF v = <<>> THEN PyNone ELSE v[1]

\* An extractor whose pattern lets the end of the text close a block: a
\* begin token with no end token after it opens a block up to the end.
extract_unterminated_block(t) ==
    LET m == re_search(t, 1)
        begins == {b \in 1..Len(t) : t[b] = BEGIN}
    IN  IF m = <<>>
        THEN IF begins = {} THEN PyNone
             ELSE LET b == CHOOSE x \in begins : \A y \in begins : x <= y
                      updates == json_loads(Strip(SubSeq(t, b + 1, Len(t))))
                  IN  IF updates = <<>> THEN PyNone ELSE updates[1]
        ELSE LET update_text == Strip(SubSeq(t, m[1].start + 1, m[1].end - 1))
                 updates == json_loads(update_text)
             IN  IF updates = <<>> THEN PyNone ELSE updates[1]

\* extract_world_updates(text): the decoded interior of the first match;
\* None when there is no match or the interior does not decode.
extract_world_updates(t) ==
    LET m == re_search(t, 1)
    IN  IF m = <<>> THEN PyNone
        ELSE LET update_text == Strip(SubSeq(t, m[1].start + 1, m[1].end - 1))
                 updates == json_loads(update_text)
             IN  IF updates = <<>> THEN PyNone ELSE updates[1]

\* clean_response = re.sub(...).strip()
CleanResponse(t) == Strip(re_sub(t, 1))

----------------------------------------------------------------------------
(* The chat() handler.  Flask runs each request in a thread of its own;    *)
(* the steps of a request are cut where it reads or writes what the        *)
(* threads share: the session cookie, the document file, the history file. *)
(* The session is Flask's signed cookie: a request works on its own        *)
(* decoded copy, and the copy goes back to the client with the response    *)
(* only when the session was assigned to (session[...] = ...), not when a  *)
(* list inside it was appended to in place.                                *)

UserMessage(n) ==
    [sender |-> "user", character |-> Absent, content |-> <<"hi">>, timestamp |-> n]
CharacterMessage(n, character, content) ==
    [sender |-> "character", character |-> character, content |-> content, timestamp |-> n]

HistoryWindow == 10

\* [msg for msg in chat_history if sender == "user" or character == c][-10:]
RECURSIVE FilterHistory(_, _)
FilterHistory(h, c) ==
    IF h = <<>> THEN <<>>
    ELSE IF Head(h).sender = "user" \/ Head(h).character = c
         THEN <<Head(h)>> \o FilterHistory(Tail(h), c)
         ELSE FilterHistory(Tail(h), c)
LastN(h, k) == IF Len(h) <= k THEN h ELSE SubSeq(h, Len(h) - k + 1, Len(h))
\* A slice [:10]: the oldest ten of the filtered messages.
character_chat_history_oldest(h, c) ==
    LET f == FilterHistory(h, c)
    IN  IF Len(f) <= HistoryWindow THEN f ELSE SubSeq(f, 1, HistoryWindow)

character_chat_history(h, c) == LastN(FilterHistory(h, c), HistoryWindow)

\* A composer that writes every list entry with str() before joining.
create_character_prompt_str(character, dw, history) ==
    IF FindCharacter(dw.characters, character) = 0
    THEN <<[found |-> FALSE, history |-> <<>>]>>
    ELSE <<[found |-> TRUE, history |-> history]>>

\* create_character_prompt: <<prompt>>, or <<>> when it raises.  The prompt
\* is the character-not-found text when no record has the name, else the
\* persona followed by one line per message of history.  ', '.join(...) of
\* the record's skills_or_powers and items raises TypeError when an entry is
\* not a string (the null a directive without "item" or "skill" appends).
create_character_prompt(character, dw, history) ==
    LET i == FindCharacter(dw.characters, character)
    IN  IF i = 0 THEN <<[found |-> FALSE, history |-> <<>>]>>
        ELSE IF None \in Range(SkillsOf(dw.characters[i])) \cup Range(ItemsOf(dw.characters[i]))
             THEN <<>>
             ELSE <<[found |-> TRUE, history |-> history]>>

NoResponse == <<>>
OkResponse(clean, wu) ==
    <<[status |-> 200, kind |-> "ok", response |-> clean, world_updated |-> wu # PyNone]>>
SetupRequired ==
    <<[status |-> 400, kind |-> "setup_required", response |-> <<>>, world_updated |-> FALSE]>>
ErrorResponse ==
    <<[status |-> 500, kind |-> "error", response |-> <<>>, world_updated |-> FALSE]>>
\* An exception left chat(): the server's own answer to the request, the
\* debugger's page under app.run(debug=True), else the plain 500 page.
Uncaught ==
    <<[status |-> 500, kind |-> "uncaught", response |-> <<>>, world_updated |-> FALSE]>>

IdleTurn ==
    [pc |-> "idle", n |-> 0, character |-> None,
     found |-> <<>>, chat_history |-> <<>>, session_modified |-> FALSE,
     dynamic_world |-> <<>>, loaded |-> <<>>,
     character_chat_history |-> <<>>, prompt |-> <<>>,
     response_text |-> <<>>, world_updates |-> PyNone, clean_response |-> <<>>,
     response |-> NoResponse,
     \* what the request has done so far (steps: in the order it did it)
     model_calls |-> 0, model_raised |-> FALSE, model_returned |-> FALSE,
     wrote_world |-> FALSE, wrote_history |-> FALSE, io_failed |-> FALSE,
     steps |-> <<>>]

\* lines 105-120: the session's list (created empty, the session assigned,
\* when the key is missing) with the user message appended in place
chat_receive(w, character, limit) ==
    /\ turn[w].pc = "idle"
    /\ nTurns < limit
    /\ nTurns' = nTurns + 1
    /\ LET history == IF cookie = <<>> THEN <<>> ELSE cookie[1]
       IN  turn' = [turn EXCEPT ![w] =
                [IdleTurn EXCEPT !.pc = "load", !.n = nTurns + 1,
                                 !.character = character,
                                 !.session_modified = (cookie = <<>>),
                                 !.steps = <<"append_user">>,
                                 !.found = history,
                                 !.chat_history = Append(history, UserMessage(nTurns + 1))]]
    /\ UNCHANGED fileVars

\* A handler that starts from a fresh document when the file is missing.
chat_load_or_create(w) ==
    /\ turn[w].pc = "load"
    /\ LET dw == IF dynFile = <<>>
                 THEN <<NewDynamicWorld(<<Character("Harry", TRUE, <<>>, TRUE, <<>>)>>,
                                        "Harry", "English")>>
                 ELSE dynFile
           history == character_chat_history(turn[w].chat_history, turn[w].character)
           prompt == create_character_prompt(turn[w].character, dw[1], history)
       IN  turn' = [turn EXCEPT
                ![w].pc = IF prompt = <<>> THEN "respond" ELSE "call",
                ![w].dynamic_world = dw,
                ![w].loaded = dw,
                ![w].character_chat_history = history,
                ![w].prompt = prompt,
                ![w].response = IF prompt = <<>> THEN Uncaught ELSE @,
                ![w].steps = @ \o <<"load", "compose">>]
    /\ UNCHANGED <<fileVars, nTurns>>

\* lines 122-134: load_dynamic_world, the setup-required response when there
\* is no document, else the prompt from the filtered history; line 134 is
\* before the try of line 137, so what create_character_prompt raises
\* leaves the handler
chat_load(w) ==
    /\ turn[w].pc = "load"
    /\ IF dynFile = <<>>
       THEN turn' = [turn EXCEPT ![w].pc = "respond", ![w].response = SetupRequired,
                                  ![w].steps = Append(@, "load")]
       ELSE LET history == character_chat_history(turn[w].chat_history, turn[w].character)
                prompt == create_character_prompt(turn[w].character, dynFile[1], history)
            IN  turn' = [turn EXCEPT
                    ![w].pc = IF prompt = <<>> THEN "respond" ELSE "call",
                    ![w].dynamic_world = dynFile,
                    ![w].loaded = dynFile,
                    ![w].character_chat_history = history,
                    ![w].prompt = prompt,
                    ![w].response = IF prompt = <<>> THEN Uncaught ELSE @,
                    ![w].steps = @ \o <<"load", "compose">>]
    /\ UNCHANGED <<fileVars, nTurns>>

\* lines 137-146 and 240-242: the completion call raises
chat_call_raises(w) ==
    /\ turn[w].pc = "call"
    /\ turn' = [turn EXCEPT ![w].pc = "respond",
                            ![w].model_calls = @ + 1,
                            ![w].model_raised = TRUE,
                            ![w].steps = Append(@, "call"),
                            ![w].response = ErrorResponse]
    /\ UNCHANGED <<fileVars, nTurns>>

\* A handler that never reaches save_dynamic_world.
NextAfterApplyNoSave(wu) == "save_history"

\* Where the handler goes once the directive is applied in memory: line 230
\* saves the document whenever "if world_updates:" held.
NextAfterApply(wu) == IF wu.truthy THEN "save_world" ELSE "save_history"

\* lines 148-230: the completion returns response_text; the directive is
\* extracted, the reply cleaned and appended, the session assigned, and the
\* directive applied to the loaded document.  world_updates.get raises
\* AttributeError on a truthy value that is no dict.
chat_call_returns(w, response_text) ==
    /\ turn[w].pc = "call"
    /\ LET world_updates == extract_world_updates(response_text)
           clean_response == CleanResponse(response_text)
           t1 == [turn[w] EXCEPT
                    !.model_calls = @ + 1,
                    !.model_returned = TRUE,
                    !.response_text = response_text,
                    !.world_updates = world_updates,
                    !.clean_response = clean_response,
                    !.chat_history = Append(@, CharacterMessage(turn[w].n, turn[w].character,
                                                                clean_response)),
                    !.session_modified = TRUE,
                    !.steps = @ \o <<"call", "extract", "append_reply">>]
       IN  IF world_updates.truthy /\ world_updates.kind # "object"
           THEN turn' = [turn EXCEPT ![w] = [t1 EXCEPT !.pc = "respond", !.response = ErrorResponse]]
           ELSE turn' = [turn EXCEPT ![w] =
                    [t1 EXCEPT !.pc = NextAfterApply(world_updates),
                               !.steps = IF world_updates.truthy THEN Append(@, "apply") ELSE @,
                               !.dynamic_world =
                                    IF world_updates.truthy
                                    THEN <<apply_world_updates(turn[w].dynamic_world[1], world_updates)>>
                                    ELSE @]]
    /\ UNCHANGED <<fileVars, nTurns>>

\* A save that reads the file again and applies the directive to what it
\* finds there, as a handler holding a lock on the document would.
chat_save_world_merging(w) ==
    /\ turn[w].pc = "save_world"
    /\ dynFile' = IF dynFile = <<>> THEN turn[w].dynamic_world
                  ELSE <<apply_world_updates(dynFile[1], turn[w].world_updates)>>
    /\ dynWriter' = turn[w].n
    /\ turn' = [turn EXCEPT ![w].pc = "save_history", ![w].wrote_world = TRUE,
                            ![w].steps = Append(@, "save_world")]
    /\ UNCHANGED <<histFile, cookie, nTurns>>

\* A save that writes the knowledge-graph part of the document only: the
\* user block comes back empty.
chat_save_world_without_user(w) ==
    /\ turn[w].pc = "save_world"
    /\ dynFile' = <<[turn[w].dynamic_world[1] EXCEPT
                        !.user = [language |-> None, character_played |-> None]]>>
    /\ dynWriter' = turn[w].n
    /\ turn' = [turn EXCEPT ![w].pc = "save_history", ![w].wrote_world = TRUE,
                            ![w].steps = Append(@, "save_world")]
    /\ UNCHANGED <<histFile, cookie, nTurns>>

\* line 230, save_dynamic_world: the whole file is overwritten
chat_save_world(w) ==
    /\ turn[w].pc = "save_world"
    /\ dynFile' = turn[w].dynamic_world
    /\ dynWriter' = turn[w].n
    /\ turn' = [turn EXCEPT ![w].pc = "save_history", ![w].wrote_world = TRUE,
                            ![w].steps = Append(@, "save_world")]
    /\ UNCHANGED <<histFile, cookie, nTurns>>

\* line 230 raising (the file cannot be opened for writing)
chat_save_world_raises(w) ==
    /\ turn[w].pc = "save_world"
    /\ turn' = [turn EXCEPT ![w].pc = "respond", ![w].io_failed = TRUE,
                            ![w].response = ErrorResponse]
    /\ UNCHANGED <<fileVars, nTurns>>

\* A save that writes the two messages of the turn only.
chat_save_history_of_turn(w) ==
    /\ turn[w].pc = "save_history"
    /\ histFile' = <<LastN(turn[w].chat_history, 2)>>
    /\ turn' = [turn EXCEPT ![w].pc = "respond", ![w].wrote_history = TRUE,
                            ![w].steps = Append(@, "save_history"),
                            ![w].response = OkResponse(turn[w].clean_response,
                                                       turn[w].world_updates)]
    /\ UNCHANGED <<dynFile, dynWriter, cookie, nTurns>>

\* lines 233-238, save_chat_history_to_file: the whole file is overwritten
\* with the request's list, then the success response is built
chat_save_history(w) ==
    /\ turn[w].pc = "save_history"
    /\ histFile' = <<turn[w].chat_history>>
    /\ turn' = [turn EXCEPT ![w].pc = "respond", ![w].wrote_history = TRUE,
                            ![w].steps = Append(@, "save_history"),
                            ![w].response = OkResponse(turn[w].clean_response,
                                                       turn[w].world_updates)]
    /\ UNCHANGED <<dynFile, dynWriter, cookie, nTurns>>

\* line 233 raising
chat_save_history_raises(w) ==
    /\ turn[w].pc = "save_history"
    /\ turn' = [turn EXCEPT ![w].pc = "respond", ![w].io_failed = TRUE,
                            ![w].response = ErrorResponse]
    /\ UNCHANGED <<fileVars, nTurns>>

\* The response leaves: Flask writes the session back when it was assigned.
\* After an exception that left the handler the session is written back
\* only if the server does not propagate exceptions (it does under
\* app.run(debug=True), it does not under a production server).
chat_respond(w) ==
    /\ turn[w].pc = "respond"
    /\ \E saved \in (IF turn[w].response = Uncaught THEN BOOLEAN ELSE {TRUE}) :
          cookie' = IF saved /\ turn[w].session_modified THEN <<turn[w].chat_history>>
                    ELSE cookie
    /\ turn' = [turn EXCEPT ![w].pc = "idle", ![w].steps = Append(@, "respond")]
    /\ UNCHANGED <<dynFile, dynWriter, histFile, nTurns>>

\* History: the last reset that happens while a turn is running is noted in
\* the turn's steps, with whether it removed the file.
LogReset(removed) ==
    [w \in DOMAIN turn |->
        IF turn[w].pc = "idle" THEN turn[w]
        ELSE [turn[w] EXCEPT !.steps =
                Append(SelectSeq(@, LAMBDA step : step \notin {"reset", "reset_failed"}),
                       IF removed THEN "reset" ELSE "reset_failed")]]

\* A reset that also removes the document file.
reset_chat_and_world(removed) ==
    /\ cookie' = <<>>
    /\ histFile' = IF removed THEN <<>> ELSE histFile
    /\ dynFile' = <<>>
    /\ resetAt' = nTurns
    /\ turn' = LogReset(removed)
    /\ UNCHANGED <<dynWriter, nTurns>>

\* A reset that empties the session and leaves the history file in place.
reset_chat_keeping_file(removed) ==
    /\ cookie' = <<>>
    /\ histFile' = histFile
    /\ resetAt' = nTurns
    /\ turn' = LogReset(removed)
    /\ UNCHANGED <<dynFile, dynWriter, nTurns>>

\* reset_chat, lines 317-331: the key is popped from the session and the
\* history file removed; os.remove failing (removed = FALSE) is printed and
\* the success response returned all the same.
reset_chat(removed) ==
    /\ cookie' = <<>>
    /\ histFile' = IF removed THEN <<>> ELSE histFile
    /\ resetAt' = nTurns
    /\ turn' = LogReset(removed)
    /\ UNCHANGED <<dynFile, dynWriter, nTurns>>

----------------------------------------------------------------------------
(* Character selection (save_character of chat_app.py, and                 *)
(* choose_character_and_initialize): the document is written anew from the *)
(* knowledge graph.                                                        *)
KGCharacters ==
    <<Character("Harry", TRUE, <<"wand">>, TRUE, <<>>),
      Character("Ron", FALSE, <<>>, FALSE, <<>>)>>

\* lines 410-486: no document is written when no record has the exact name
save_character(character_name, language) ==
    /\ FindCharacter(KGCharacters, character_name) # 0
    /\ dynFile' = <<NewDynamicWorld(KGCharacters, character_name, language)>>
    /\ dynWriter' = 0
    /\ UNCHANGED <<histFile, cookie>>

\* choose_character.py.  What the user types at the selection prompt: a
\* number or a name.
isdigit(choice) == choice \in {"1", "2", "3"}
int(choice) == CASE choice = "1" -> 1 [] choice = "2" -> 2 [] choice = "3" -> 3
\* str.lower() on the names and choices used here
name_lower(name) ==
    CASE name \in {"Harry", "HARRY"} -> "harry"
      [] name \in {"Ron", "RON"} -> "ron"
      [] name = "Harry Potter" -> "harry potter"
      [] OTHER -> name

\* lines 94-109: the record chosen by number, or the first whose name is the
\* choice without regard to case; 0 for "Invalid choice. Try again."
SelectedIndex(characters, choice) ==
    IF isdigit(choice)
    THEN IF int(choice) - 1 >= 0 /\ int(choice) - 1 < Len(characters) THEN int(choice) ELSE 0
    ELSE IF \E i \in 1..Len(characters) : name_lower(characters[i].name) = name_lower(choice)
         THEN CHOOSE i \in 1..Len(characters) :
                /\ name_lower(characters[i].name) = name_lower(choice)
                /\ \A j \in 1..(i-1) : name_lower(characters[j].name) # name_lower(choice)
         ELSE 0

\* lines 131-140: characters[i] = {**char, **enhanced_character} for the first
\* record named selected_name; every key the profile has replaces the
\* record's, its name included.  An enhanced profile is <<>> (the call
\* failed, or returned {}) or <<profile>>.
MergeEnhanced(characters, selected_name, enhanced_character) ==
    LET i == FindCharacter(characters, selected_name)
    IN  IF enhanced_character = <<>> \/ i = 0 THEN characters
        ELSE [characters EXCEPT
                ![i].name = IF enhanced_character[1].has_name
                            THEN enhanced_character[1].name ELSE @,
                ![i].character_arc = IF enhanced_character[1].has_character_arc
                                     THEN <<>> ELSE @]

\* choose_character_and_initialize, lines 68-187: the prompt is repeated
\* until the choice is valid, so the function completes with a valid one
choose_character_and_initialize(choice, language, use_api, enhanced_character) ==
    LET characters == KGCharacters
        selected == SelectedIndex(characters, choice)
        user_language == IF language = "" THEN "English" ELSE language
        selected_name == characters[selected].name
        merged == IF use_api
                  THEN MergeEnhanced(characters, selected_name, enhanced_character)
                  ELSE characters
    IN  /\ selected # 0
        /\ dynFile' = <<NewDynamicWorld(merged, selected_name, user_language)>>
        /\ dynWriter' = 0
        /\ UNCHANGED <<histFile, cookie>>

----------------------------------------------------------------------------
(* DynamicKnowledgeUpdater.  self.dynamic_knowledge is read from the file  *)
(* when the updater is constructed and written back by every update.       *)

\* The analysis of a user response, from the completion service or from the
\* keyword fallback.
Consequence(emotional_impact, arc_development, items_gained, items_lost, story_direction) ==
    [emotional_impact |-> emotional_impact, arc_development |-> arc_development,
     items_gained |-> items_gained, items_lost |-> items_lost,
     story_direction |-> story_direction]
Consequences ==
    {Consequence("", "", <<>>, <<>>, ""),
     Consequence("tension", "confrontational", <<>>, <<>>, "conflict"),
     Consequence("joy", "", <<"wand">>, <<>>, ""),
     Consequence("", "heroic traits", <<"cloak", "cloak">>, <<"wand">>, "heroic")}

RECURSIVE RemoveEach(_, _)
\* for item in items_lost: if item in items: items.remove(item)
RemoveEach(items, lost) ==
    IF lost = <<>> THEN items
    ELSE RemoveEach(IF Head(lost) \in Range(items) THEN ListRemove(items, Head(lost)) ELSE items,
                    Tail(lost))

\* An update that assigns the new line to the two text fields instead of
\* appending it.
update_character_state_overwriting(dk, character_name, user_action, consequences, now) ==
    LET i == FindCharacter(dk.characters, character_name)
    IN  IF i = 0 THEN dk
        ELSE LET c == dk.characters[i]
             IN  WithCharacter(dk, i,
                    [c EXCEPT
                        !.emotional_state_trends =
                            <<[at |-> now, action |-> user_action,
                               text |-> consequences.emotional_impact]>>,
                        !.character_arc =
                            <<[at |-> now, action |-> user_action,
                               text |-> consequences.arc_development]>>,
                        !.has_items = TRUE,
                        !.items = RemoveEach(ItemsOf(c) \o consequences.items_gained,
                                             consequences.items_lost)])

\* lines 29-55
update_character_state(dk, character_name, user_action, consequences, now) ==
    LET i == FindCharacter(dk.characters, character_name)
    IN  IF i = 0 THEN dk
        ELSE LET c == dk.characters[i]
             IN  WithCharacter(dk, i,
                    [c EXCEPT
                        !.emotional_state_trends =
                            Append(@, [at |-> now, action |-> user_action,
                                       text |-> consequences.emotional_impact]),
                        !.character_arc =
                            Append(@, [at |-> now, action |-> user_action,
                                       text |-> consequences.arc_development]),
                        !.has_items = TRUE,
                        !.items = RemoveEach(ItemsOf(c) \o consequences.items_gained,
                                             consequences.items_lost)])

\* An add_story_event whose storyline is not the document's: the event goes
\* to a dictionary that is thrown away.
add_story_event_detached(dk, event_description, impact_level, now) == dk

\* lines 57-71
add_story_event(dk, event_description, impact_level, now) ==
    [dk EXCEPT !.main_events =
        Append(@, [timestamp |-> now, description |-> event_description,
                   impact_level |-> impact_level, user_generated |-> TRUE])]

\* A branch id taken from the length alone, without the + 1.
NewBranchIdFromZero(dk) == Len(dk.alternative_endings)

\* "id": len(self.dynamic_knowledge["alternative_endings"]) + 1
NewBranchId(dk) == Len(dk.alternative_endings) + 1

\* lines 97-110
add_alternative_ending_branch(dk, branch_description, conditions, now) ==
    [dk EXCEPT !.has_alternative_endings = TRUE,
               !.alternative_endings =
                    Append(@, [id |-> NewBranchId(dk), description |-> branch_description,
                               conditions |-> conditions, created_at |-> now])]

\* __init__ / load_dynamic_knowledge, lines 11-21: FileNotFoundError (no
\* updater) when the file is missing
updater_init ==
    /\ dynFile # <<>>
    /\ updater' = dynFile
    /\ UNCHANGED <<fileVars, assignedIds, nUpdates>>

\* lines 226-254, all of it: analysis, character state, story event, the
\* branch when story_direction is not empty, save
update_based_on_user_response(user_response, current_character, consequences) ==
    /\ updater # <<>>
    /\ nUpdates < MaxUpdates
    /\ LET now == nUpdates + 1
           dk1 == update_character_state(updater[1], current_character, user_response,
                                         consequences, now)
           dk2 == add_story_event(dk1, user_response, "medium", now)
           branch == consequences.story_direction # ""
           dk3 == IF branch
                  THEN add_alternative_ending_branch(dk2, consequences.story_direction,
                                                     <<consequences.story_direction>>, now)
                  ELSE dk2
       IN  /\ updater' = <<dk3>>
           /\ dynFile' = <<dk3>>
           /\ dynWriter' = 0
           /\ assignedIds' = IF branch
                             THEN assignedIds \cup {[created |-> now,
                                                    id |-> dk3.alternative_endings[Len(dk3.alternative_endings)].id]}
                             ELSE assignedIds
    /\ nUpdates' = nUpdates + 1
    /\ UNCHANGED <<histFile, cookie>>

----------------------------------------------------------------------------
(* StoryGenerator and ChatInterface.  The generator reads the document     *)
(* file when it is constructed, into a dictionary of its own.  An entry of *)
(* conversation_history is its type and what it holds; a call's outcome is *)
(* its kind and, in a sequence of length 0 or 1, what it reports.          *)
NoReturn == [kind |-> "", data |-> <<>>]
Returned(kind, data) == [kind |-> kind, data |-> data]
Entry(type, content) == [type |-> type, content |-> content]

\* user_input.lower()
str_lower(user_input) ==
    CASE user_input = "QUIT" -> "quit"
      [] user_input = "Status" -> "status"
      [] user_input = "PROGRESS" -> "progress"
      [] user_input = "Endings" -> "endings"
      [] OTHER -> user_input

\* The last three alternative endings: id, description and conditions.
generate_alternative_ending_preview(dk, character) ==
    LET endings == LastN(dk.alternative_endings, 3)
    IN  [i \in 1..Len(endings) |->
            [id |-> endings[i].id, description |-> endings[i].description,
             conditions |-> endings[i].conditions]]

\* The skills and items of the character's record, <<>> for "Character
\* status unavailable."
generate_character_status_update(dk, character) ==
    LET i == FindCharacter(dk.characters, character)
    IN  IF i = 0 THEN <<>>
        ELSE <<[skills |-> SkillsOf(dk.characters[i]), items |-> ItemsOf(dk.characters[i]),
                character_arc |-> LastN(dk.characters[i].character_arc, 1),
                emotional_state |-> LastN(dk.characters[i].emotional_state_trends, 1)]>>

\* The counts of the progress report.
get_story_progress(dk) ==
    LET user_generated == {i \in 1..Len(dk.main_events) : dk.main_events[i].user_generated}
    IN  [total_events |-> Len(dk.main_events),
         user_generated_events |-> Cardinality(user_generated),
         alternative_endings_available |-> Len(dk.alternative_endings),
         story_complexity |-> Len(dk.alternative_endings) * 10,
         recent_activity |-> Cardinality(user_generated)]

\* self.generator.generate_next_story_segment(...): StoryGenerator defines
\* generate_story_segment_with_api and generate_next_story_segment_template
\* and no method of this name, so the call raises AttributeError.  <<>> is
\* the raise, <<segment>> a segment.
generate_next_story_segment(dk, user_response, character, consequences) == <<>>

\* ChatInterface.__init__: the updater and the generator each load the file
\* (FileNotFoundError when it is missing).  One interface is built per run.
ChatInterface_init ==
    /\ generator = <<>>
    /\ updater_init
    /\ generator' = dynFile
    /\ session_character' = None
    /\ conversation_history' = <<>>
    /\ story_progress' = 0
    /\ UNCHANGED <<logFile, returned>>

\* initialize_chat: called once, with the character selected
initialize_chat(character_name) ==
    /\ generator # <<>>
    /\ session_character = None
    /\ session_character' = character_name
    /\ conversation_history' = <<Entry("system", "welcome")>>
    /\ story_progress' = 0
    /\ UNCHANGED <<fileVars, updVars, generator, logFile, returned>>

\* _handle_quit: the log is written first; an I/O error leaves the handler
\* before the farewell is recorded
handle_quit(io_ok) ==
    /\ IF io_ok
       THEN /\ logFile' = <<[character |-> session_character,
                             total_interactions |-> Len(conversation_history),
                             story_progress |-> story_progress,
                             conversation |-> conversation_history]>>
            /\ conversation_history' = Append(conversation_history, Entry("system", "farewell"))
            /\ returned' = Returned("farewell", <<>>)
       ELSE /\ returned' = Returned("raised", <<>>)
            /\ UNCHANGED <<logFile, conversation_history>>
    /\ UNCHANGED <<fileVars, updVars, generator, session_character, story_progress>>

\* A report handler that counts the command as an interaction of the story.
handle_report_counting(kind) ==
    /\ conversation_history' = Append(conversation_history, Entry("system", kind))
    /\ story_progress' = story_progress + 1
    /\ returned' = Returned(kind, <<>>)
    /\ UNCHANGED <<fileVars, updVars, generator, session_character, logFile>>

\* _handle_status, _handle_progress, _handle_endings: what the generator
\* reports from its own dictionary, recorded as a system entry
handle_report(kind) ==
    LET data == CASE kind = "status" ->
                        <<generate_character_status_update(generator[1], session_character)>>
                  [] kind = "progress" -> <<get_story_progress(generator[1])>>
                  [] kind = "endings" ->
                        <<generate_alternative_ending_preview(generator[1], session_character)>>
    IN  /\ conversation_history' = Append(conversation_history, Entry("system", kind))
        /\ returned' = Returned(kind, data)
        /\ UNCHANGED <<fileVars, updVars, generator, session_character, story_progress,
                       logFile>>

\* process_user_input, lines 63-107
process_user_input(user_input, consequences, io_ok) ==
    /\ generator # <<>>
    /\ Len(conversation_history) < MaxEntries
    /\ IF session_character = None
       THEN /\ returned' = Returned("not_initialized", <<>>)
            /\ UNCHANGED <<fileVars, updVars, generator, session_character,
                           conversation_history, story_progress, logFile>>
       ELSE IF str_lower(user_input) = "quit" THEN handle_quit(io_ok)
       ELSE IF str_lower(user_input) \in {"status", "progress", "endings"}
       THEN handle_report(str_lower(user_input))
       ELSE LET next_story == generate_next_story_segment(generator[1], user_input,
                                                         session_character, consequences)
                user_entry == Entry("user", user_input)
            IN  /\ update_based_on_user_response(user_input, session_character, consequences)
                /\ IF next_story = <<>>
                   THEN /\ conversation_history' = Append(conversation_history, user_entry)
                        /\ story_progress' = story_progress
                        /\ returned' = Returned("raised", <<>>)
                   ELSE /\ conversation_history' =
                                conversation_history \o <<user_entry, Entry("story", next_story[1])>>
                        /\ story_progress' = story_progress + 1
                        /\ returned' = Returned("story",
                                <<[next_story |-> next_story[1],
                                   progress_update |-> (story_progress + 1) % 5 = 0]>>)
                /\ UNCHANGED <<generator, session_character, logFile>>

----------------------------------------------------------------------------
(* The specifications.                                                     *)
Workers == {1, 2}

FilesIdle   == dynFile = <<>> /\ histFile = <<>> /\ cookie = <<>> /\ dynWriter = 0
TurnsIdle   == turn = [w \in Workers |-> IdleTurn] /\ nTurns = 0 /\ resetAt = -1
ExtractIdle == text = <<>> /\ extracted = <<>>
UpdaterIdle == updater = <<>> /\ assignedIds = {} /\ nUpdates = 0
IfaceIdle   == /\ generator = <<>> /\ session_character = "<None>" /\ conversation_history = <<>>
               /\ story_progress = 0 /\ logFile = <<>> /\ returned = NoReturn

\* ---- Spec: chat requests, one after the other, on a session and its files
RequestCharacters == {"Harry", "Draco"}

\* What the completion service may return: no block, a block of each kind
\* of directive (one that changes the document, one already in effect, an
\* unknown character, an unknown type, a missing field, the empty object),
\* a block that is not JSON, JSON that is no object, two blocks, and a
\* block that is never closed.
ModelReplies ==
    {<<"hello">>,
     <<"hello", WS, BEGIN, ObjAcquireCloak, END>>,
     <<BEGIN, WS, ObjLoseWand, WS, END, WS, "hello">>,
     <<"hello", BEGIN, ObjAcquireWand, END>>,
     <<"hello", BEGIN, ObjMoveStranger, END>>,
     <<BEGIN, ObjQuest, END, "hello">>,
     <<BEGIN, ObjNoItem, END>>,
     <<"hello", BEGIN, ObjEmpty, END>>,
     <<"hello", BEGIN, "hello", END>>,
     <<"hello", BEGIN, JsonList, END>>,
     <<BEGIN, ObjAcquireCloak, END, "hello", BEGIN, ObjLoseWand, END>>,
     <<"hello", BEGIN, ObjAcquireCloak>>}

Init ==
    /\ dynFile \in {<<>>, <<NewDynamicWorld(KGCharacters, "Harry", "English")>>}
    /\ histFile = <<>>
    /\ cookie = <<>>
    /\ dynWriter = 0
    /\ TurnsIdle /\ MutatorIdle /\ ExtractIdle /\ UpdaterIdle /\ IfaceIdle

ChatStep(w, characters, replies, limit) ==
    \/ \E c \in characters : chat_receive(w, c, limit)
    \/ chat_load(w)
    \/ chat_call_raises(w)
    \/ \E r \in replies : chat_call_returns(w, r)
    \/ chat_save_world(w)
    \/ chat_save_world_raises(w)
    \/ chat_save_history(w)
    \/ chat_save_history_raises(w)
    \/ chat_respond(w)

Next == ChatStep(1, RequestCharacters, ModelReplies, MaxTurns) /\ UNCHANGED <<resetAt, mutVars, extVars, updVars, ifaceVars>>
Spec == Init /\ [][Next]_vars

\* ---- RaceSpec: two request threads at a time on the same session and files
RaceReplies ==
    {<<"hello">>,
     <<"hello", WS, BEGIN, ObjAcquireCloak, END>>,
     <<BEGIN, WS, ObjLoseWand, WS, END, WS, "hello">>,
     <<"hello", BEGIN, ObjMoveStranger, END>>,
     <<"hello", BEGIN, JsonList, END>>}

RaceNext ==
    (\E w \in Workers : ChatStep(w, {"Harry"}, RaceReplies, MaxRaceTurns))
        /\ UNCHANGED <<resetAt, mutVars, extVars, updVars, ifaceVars>>
RaceSpec == Init /\ [][RaceNext]_vars

\* ---- ResetSpec: chat requests and resets of one client
ResetReplies == {<<"hello">>, <<"hello", WS, BEGIN, ObjAcquireCloak, END>>}

ResetNext ==
    /\ \/ ChatStep(1, {"Harry"}, ResetReplies, MaxTurns) /\ UNCHANGED resetAt
       \/ \E removed \in BOOLEAN : reset_chat(removed)
    /\ UNCHANGED <<mutVars, extVars, updVars, ifaceVars>>
ResetSpec == Init /\ [][ResetNext]_vars

\* ---- MutatorSpec: the mutator taken alone
MutatorNext ==
    \E wu \in Directives : ApplyDirective(wu) /\ UNCHANGED <<fileVars, turnVars, extVars, updVars, ifaceVars>>
MutatorSpecInit == FilesIdle /\ TurnsIdle /\ ExtractIdle /\ UpdaterIdle /\ IfaceIdle /\ MutatorInit
MutatorSpec == MutatorSpecInit /\ [][MutatorNext]_vars

\* ---- ExtractSpec: the extractor and the cleaning on every short reply
ExtractTokens == {BEGIN, END, WS, "hello", ObjAcquireWand, ObjLoseWand}
Replies == UNION {[1..n -> ExtractTokens] : n \in 0..MaxTextLen}

\* lines 151-154 of chat(): the two things computed from response_text
extract_and_clean ==
    /\ extracted = <<>>
    /\ extracted' = <<[world_updates |-> extract_world_updates(text),
                       clean_response |-> CleanResponse(text)]>>
    /\ UNCHANGED text

ExtractNext == extract_and_clean /\ UNCHANGED <<fileVars, turnVars, mutVars, updVars, ifaceVars>>
ExtractSpecInit ==
    FilesIdle /\ TurnsIdle /\ MutatorIdle /\ UpdaterIdle /\ IfaceIdle /\ text \in Replies /\ extracted = <<>>
ExtractSpec == ExtractSpecInit /\ [][ExtractNext]_vars

\* ---- UpdaterSpec: character selection and the updater on the document file
SelectableNames == {"Harry", "Ron", "Nobody"}
UserResponses == {"fight", "wait"}
CurrentCharacters == {"Harry", "Nobody"}

UpdaterNext ==
    /\ \/ \E name \in SelectableNames : save_character(name, "English") /\ UNCHANGED updVars
       \/ updater_init
       \/ \E r \in UserResponses, c \in CurrentCharacters, k \in Consequences :
              update_based_on_user_response(r, c, k)
    /\ UNCHANGED <<turnVars, mutVars, extVars, ifaceVars>>
UpdaterSpecInit == FilesIdle /\ TurnsIdle /\ MutatorIdle /\ ExtractIdle /\ UpdaterIdle /\ IfaceIdle
UpdaterSpec == UpdaterSpecInit /\ [][UpdaterNext]_vars

\* ---- IfaceSpec: a ChatInterface session on the document written at
\* character selection
IfaceInputs == {"quit", "QUIT", "Status", "progress", "Endings", "fight", "wait"}
IfaceCharacters == {"Harry", "Ron"}

IfaceNext ==
    /\ \/ ChatInterface_init
       \/ \E name \in IfaceCharacters : initialize_chat(name)
       \/ \E r \in IfaceInputs, k \in Consequences, io_ok \in BOOLEAN :
              process_user_input(r, k, io_ok)
    /\ UNCHANGED <<turnVars, mutVars, extVars>>
IfaceSpecInit ==
    /\ dynFile = <<NewDynamicWorld(KGCharacters, "Harry", "English")>>
    /\ histFile = <<>>
    /\ cookie = <<>>
    /\ dynWriter = 0
    /\ TurnsIdle /\ MutatorIdle /\ ExtractIdle /\ UpdaterIdle /\ IfaceIdle
IfaceSpec == IfaceSpecInit /\ [][IfaceNext]_vars

\* ---- SelectSpec: character selection, at the command line or through the
\* save-character endpoint, repeated at will, and then the updater of the
\* story session that follows it
Choices == {"1", "2", "3", "harry", "RON", "Harry", "Nobody"}
Languages == {"", "French"}
EnhancedProfiles ==
    {<<>>,
     <<[has_name |-> FALSE, name |-> Absent, has_character_arc |-> TRUE]>>,
     <<[has_name |-> TRUE, name |-> "Harry", has_character_arc |-> FALSE]>>,
     <<[has_name |-> TRUE, name |-> "Harry Potter", has_character_arc |-> TRUE]>>}

SelectNext ==
    /\ \/ \E choice \in Choices, language \in Languages, use_api \in BOOLEAN,
             enhanced_character \in EnhancedProfiles :
              /\ updater = <<>>
              /\ choose_character_and_initialize(choice, language, use_api, enhanced_character)
              /\ UNCHANGED updVars
       \/ \E name \in SelectableNames :
              updater = <<>> /\ save_character(name, "English") /\ UNCHANGED updVars
       \/ updater_init
       \/ \E k \in Consequences : update_based_on_user_response("fight", "Harry", k)
    /\ UNCHANGED <<turnVars, mutVars, extVars, ifaceVars>>
SelectSpecInit == FilesIdle /\ TurnsIdle /\ MutatorIdle /\ ExtractIdle /\ UpdaterIdle /\ IfaceIdle
SelectSpec == SelectSpecInit /\ [][SelectNext]_vars

\* ---- PromptSpec: a chat request on a session that already holds the
\* messages of earlier turns with two characters
RECURSIVE PriorTurns(_, _)
\* The session lists k earlier successful turns leave, the last one stamped
\* before: a user message and the reply of the turn's character each.
PriorTurns(k, before) ==
    IF k = 0 THEN {<<>>}
    ELSE {h \o <<UserMessage(before), CharacterMessage(before, c, <<"hello">>)>> :
            h \in PriorTurns(k - 1, before - 1), c \in {"Harry", "Ron"}}

\* ... after a first request that may have failed, leaving its user message
PriorHistories ==
    UNION {PriorTurns(k, 0) \cup {<<UserMessage(0 - k)>> \o h : h \in PriorTurns(k, 0)} :
             k \in 0..MaxPriorTurns}

PromptCharacters == {"Harry", "Ron", "Draco"}
PromptReplies == {<<"hello">>, <<"hello", BEGIN, ObjAcquireCloak, END>>}

PromptSpecInit ==
    /\ dynFile = <<NewDynamicWorld(KGCharacters, "Harry", "English")>>
    /\ histFile = <<>>
    /\ cookie \in {<<h>> : h \in PriorHistories \ {<<>>}} \cup {<<>>}
    /\ dynWriter = 0
    /\ TurnsIdle /\ MutatorIdle /\ ExtractIdle /\ UpdaterIdle /\ IfaceIdle
PromptNext ==
    ChatStep(1, PromptCharacters, PromptReplies, MaxPromptTurns)
        /\ UNCHANGED <<resetAt, mutVars, extVars, updVars, ifaceVars>>
PromptSpec == PromptSpecInit /\ [][PromptNext]_vars

----------------------------------------------------------------------------
(* Properties of the chat() handler (Spec, RaceSpec).                      *)
Ended(t)   == t.pc = "idle" /\ t.n > 0
IsOk(t)    == t.response # <<>> /\ t.response[1].kind = "ok"
IsError(t) == t.response # <<>> /\ t.response[1].kind = "error"

\* The request carries a directive (a non-empty JSON object).
HasDirective(t) ==
    t.model_returned /\ t.world_updates.kind = "object" /\ t.world_updates.truthy

\* The directive is one the mutator has no branch or no character for.
NoOpDirective(t) ==
    /\ HasDirective(t)
    /\ \/ t.world_updates.update_type \notin KnownUpdateTypes
       \/ \A i \in 1..Len(t.loaded[1].characters) :
              t.loaded[1].characters[i].name # t.world_updates.character

\* The directive changed the request's copy of the document.
Mutated(t) == HasDirective(t) /\ t.dynamic_world # t.loaded

\* C1, as stated: a directive of unknown update_type, or naming no
\* character of the document, leaves the document unchanged and triggers no
\* save of it.
C1_NoOpNotSaved ==
    \A w \in Workers :
        NoOpDirective(turn[w])
            => /\ turn[w].dynamic_world = turn[w].loaded
               /\ turn[w].pc # "save_world"
               /\ ~turn[w].wrote_world

\* C1, amended: such a directive leaves the document's content unchanged,
\* but the save is still triggered: the request goes on to
\* save_dynamic_world, which rewrites the file with the content it loaded.
C1_NoOpSavedUnchanged ==
    \A w \in Workers :
        NoOpDirective(turn[w])
            => /\ turn[w].dynamic_world = turn[w].loaded
               /\ turn[w].pc = "save_world" \/ turn[w].wrote_world \/ turn[w].io_failed
               /\ (turn[w].wrote_world /\ dynWriter = turn[w].n) => dynFile = turn[w].loaded

\* C1, witness: a location_change naming no character, saved, the turn over.
C1_Witness ==
    \E w \in Workers :
        /\ NoOpDirective(turn[w])
        /\ turn[w].world_updates.update_type = "location_change"
        /\ turn[w].wrote_world
        /\ Ended(turn[w]) /\ IsOk(turn[w])

\* C2, as stated: for a turn that is over, its mutation has been persisted
\* if and only if its history entries have been.
C2_MutationIffHistory ==
    \A w \in Workers :
        (Ended(turn[w]) /\ Mutated(turn[w]))
            => (turn[w].wrote_world <=> turn[w].wrote_history)

\* C2, amended: a turn that carries a directive writes the history file
\* only after it has written the document, and a turn that answers with the
\* success response has written the history file; the converse fails: a
\* turn may have persisted its mutation and not its history entries.
C2_HistoryAfterDocument ==
    \A w \in Workers :
        /\ (turn[w].wrote_history /\ turn[w].world_updates.truthy) => turn[w].wrote_world
        /\ IsOk(turn[w]) => turn[w].wrote_history

\* C2, witness: a turn that changed the document, wrote it, then wrote its
\* two history entries.
C2_Witness ==
    \E w \in Workers :
        /\ Ended(turn[w]) /\ IsOk(turn[w]) /\ Mutated(turn[w])
        /\ turn[w].wrote_world /\ turn[w].wrote_history
        /\ histFile # <<>>
        /\ \E i \in 1..Len(histFile[1]) :
              histFile[1][i].timestamp = turn[w].n /\ histFile[1][i].sender = "character"

\* C3: when the completion call raises, the turn ends with the error
\* response, the call is made once, neither file is written, and no message
\* of that turn is left in the session's chat history.
C3_FailedTurnLeavesNothing ==
    \A w \in Workers :
        (Ended(turn[w]) /\ turn[w].model_raised)
            => /\ IsError(turn[w])
               /\ turn[w].model_calls = 1
               /\ ~turn[w].wrote_world /\ ~turn[w].wrote_history
               /\ cookie # <<>> =>
                    \A i \in 1..Len(cookie[1]) : cookie[1][i].timestamp # turn[w].n

\* C4: whatever text the model returns, the turn ends in the success
\* response carrying the cleaned reply (file errors set aside).
C4_AnyReplySucceeds ==
    \A w \in Workers :
        (Ended(turn[w]) /\ turn[w].model_returned /\ ~turn[w].io_failed)
            => /\ IsOk(turn[w])
               /\ turn[w].response[1].response = CleanResponse(turn[w].response_text)

\* C5: the document file holds exactly what the request that wrote it last
\* computed from its own load, the document it loaded with its own directive
\* applied: nothing another request saved after that load is merged in.
C5_LastWriterWins ==
    \A w \in Workers :
        (dynWriter > 0 /\ turn[w].n = dynWriter)
            => /\ dynFile = turn[w].dynamic_world
               /\ dynFile = <<apply_world_updates(turn[w].loaded[1], turn[w].world_updates)>>

\* C5, witness: two turns loaded the same document, each changed it and
\* saved it and answered with success, and the file holds the later
\* writer's document, in which the earlier writer's directive is not in
\* effect.
C5_Witness ==
    \E w1, w2 \in Workers :
        /\ w1 # w2
        /\ Ended(turn[w1]) /\ IsOk(turn[w1]) /\ Mutated(turn[w1]) /\ turn[w1].wrote_world
        /\ Ended(turn[w2]) /\ IsOk(turn[w2]) /\ Mutated(turn[w2]) /\ turn[w2].wrote_world
        /\ turn[w1].loaded = turn[w2].loaded
        /\ dynWriter = turn[w2].n
        /\ dynFile = turn[w2].dynamic_world
        /\ apply_world_updates(dynFile[1], turn[w1].world_updates) # dynFile[1]

----------------------------------------------------------------------------
(* Properties of the mutator taken alone (MutatorSpec).                    *)
AddRemoveTypes == {"item_acquired", "item_lost", "skill_acquired", "skill_lost"}

Occurrences(s, x) == Cardinality({i \in 1..Len(s) : s[i] = x})

\* The list a directive is about, in document dw: the items or the skills of
\* the first character of the directive's name; empty when there is none.
TargetList(dw, wu) ==
    LET i == FindCharacter(dw.characters, wu.character)
    IN  IF i = 0 THEN <<>>
        ELSE IF wu.update_type \in {"item_acquired", "item_lost"}
             THEN ItemsOf(dw.characters[i]) ELSE SkillsOf(dw.characters[i])
TargetValue(wu) ==
    IF wu.update_type \in {"item_acquired", "item_lost"} THEN wu.item ELSE wu.skill

DuplicateFree(dw) ==
    \A i \in 1..Len(dw.characters) :
        NoDuplicates(ItemsOf(dw.characters[i])) /\ NoDuplicates(SkillsOf(dw.characters[i]))

SameDirectiveTwice ==
    nApplied >= 2 /\ mLast = mLast2 /\ mLast[1].update_type \in AddRemoveTypes

\* C6, as stated: the same add/remove directive applied a second time in a
\* row changes nothing, whatever the document.
C6_TwiceIsOnce == SameDirectiveTwice => mDoc = mPrev

\* C6, amended: acquiring an entry the list already holds changes nothing,
\* losing an entry the list does not hold changes nothing, and the same
\* add/remove directive applied a second time in a row changes nothing when
\* the list held the entry at most once before the first application.
C6_TwiceIsOnceWithoutRepeats ==
    /\ (nApplied >= 1 /\ mLast[1].update_type \in {"item_acquired", "skill_acquired"}
            /\ TargetValue(mLast[1]) \in Range(TargetList(mPrev, mLast[1])))
        => mDoc = mPrev
    /\ (nApplied >= 1 /\ mLast[1].update_type \in {"item_lost", "skill_lost"}
            /\ TargetValue(mLast[1]) \notin Range(TargetList(mPrev, mLast[1])))
        => mDoc = mPrev
    /\ (SameDirectiveTwice
            /\ Occurrences(TargetList(mPrev2, mLast[1]), TargetValue(mLast[1])) <= 1)
        => mDoc = mPrev

\* C6, witness: a removal that took effect, applied again and changing nothing.
C6_Witness ==
    /\ SameDirectiveTwice
    /\ mLast[1].update_type = "item_lost"
    /\ Occurrences(TargetList(mPrev2, mLast[1]), mLast[1].item) = 1
    /\ mPrev # mPrev2
    /\ mDoc = mPrev

AcquiredThenLost ==
    /\ nApplied >= 2
    /\ mLast2[1].update_type = "item_acquired"
    /\ mLast[1].update_type = "item_lost"
    /\ mLast[1].character = mLast2[1].character
    /\ mLast[1].item = mLast2[1].item
    /\ FindCharacter(mPrev2.characters, mLast[1].character) # 0

\* C7, as stated: item_acquired(X, i) then item_lost(X, i) gives X's items
\* back as they were.
C7_AcquireLoseRestores ==
    AcquiredThenLost => TargetList(mDoc, mLast[1]) = TargetList(mPrev2, mLast[1])

\* C7, amended: item_acquired(X, i) then item_lost(X, i) gives X's items
\* back as they were when i was not among them before (an items key that
\* was missing comes back as the empty list).
C7_AcquireLoseRestoresAbsentItem ==
    (AcquiredThenLost /\ mLast[1].item \notin Range(TargetList(mPrev2, mLast[1])))
        => /\ TargetList(mDoc, mLast[1]) = TargetList(mPrev2, mLast[1])
           /\ mLast[1].item \in Range(TargetList(mPrev, mLast[1]))

\* C7, witness: an item the character did not have, acquired and then lost.
C7_Witness ==
    /\ AcquiredThenLost
    /\ mLast[1].item \notin Range(TargetList(mPrev2, mLast[1]))
    /\ TargetList(mPrev2, mLast[1]) # <<>>
    /\ mPrev # mPrev2 /\ mDoc # mPrev

\* C8: a directive applied to a document whose items and skills_or_powers
\* lists are all duplicate-free leaves them all duplicate-free (so they stay
\* so along any sequence of directives).
C8_NoDuplicatesKept == DuplicateFree(mPrev) => DuplicateFree(mDoc)

\* C8, witness: two directives on a duplicate-free document, the second
\* acquiring an entry that the first one put in the list.
C8_Witness ==
    /\ nApplied >= 2
    /\ DuplicateFree(mPrev2) /\ DuplicateFree(mDoc)
    /\ mLast[1].update_type \in {"item_acquired", "skill_acquired"}
    /\ mLast2 = mLast
    /\ mPrev # mPrev2
    /\ TargetValue(mLast[1]) \in Range(TargetList(mPrev, mLast[1]))

----------------------------------------------------------------------------
(* Properties of the extractor and the cleaning (ExtractSpec).             *)

\* The first complete block of a reply, told without the regular
\* expression: it opens at the first begin token of the reply (any end
\* token that follows a later begin token follows the first one too) and
\* closes at the first end token after it.
FirstBegin(t) == FirstIndex(t, BEGIN)
HasCompleteBlock(t) ==
    FirstBegin(t) # 0 /\ \E e \in (FirstBegin(t) + 1)..Len(t) : t[e] = END
FirstEnd(t) ==
    CHOOSE e \in (FirstBegin(t) + 1)..Len(t) :
        t[e] = END /\ \A x \in (FirstBegin(t) + 1)..(e - 1) : t[x] # END
FirstInterior(t) == SubSeq(t, FirstBegin(t) + 1, FirstEnd(t) - 1)

\* Position p of the reply lies in a complete block: some begin token at or
\* before p has no end token between it and p, and an end token at or after p.
InBlock(t, p) ==
    \E b \in 1..p :
        /\ t[b] = BEGIN
        /\ \A x \in (b + 1)..(p - 1) : t[x] # END
        /\ \E e \in p..Len(t) : e > b /\ t[e] = END

RECURSIVE Keep(_, _, _)
\* the tokens of t at the positions from..Len(t) that are in the set kept
Keep(t, from, kept) ==
    IF from > Len(t) THEN <<>>
    ELSE (IF from \in kept THEN <<t[from]>> ELSE <<>>) \o Keep(t, from + 1, kept)

WithoutFirstBlock(t) ==
    Keep(t, 1, {p \in 1..Len(t) : p < FirstBegin(t) \/ p > FirstEnd(t)})
WithoutAnyBlock(t) ==
    Keep(t, 1, {p \in 1..Len(t) : ~InBlock(t, p)})

ObjectInFirstBlock(t) ==
    /\ HasCompleteBlock(t)
    /\ json_loads(Strip(FirstInterior(t))) # <<>>
    /\ json_loads(Strip(FirstInterior(t)))[1].kind = "object"

NumberOfBlocks(t) ==
    Cardinality({p \in 1..Len(t) : t[p] = END /\ InBlock(t, p)})

\* C10, as stated: when the first complete block of the reply holds a JSON
\* object, the extractor returns that object and the cleaned reply is the
\* reply with that delimited region taken out, trimmed.
C10_FirstBlockRemoved ==
    (extracted # <<>> /\ ObjectInFirstBlock(text))
        => /\ extracted[1].world_updates = json_loads(Strip(FirstInterior(text)))[1]
           /\ extracted[1].clean_response = Strip(WithoutFirstBlock(text))

\* C10, amended: when the first complete block of the reply holds a JSON
\* object, the extractor returns that object (no later block is decoded),
\* and the cleaned reply is the reply with every complete block taken out,
\* not only the first, trimmed.
C10_EveryBlockRemoved ==
    (extracted # <<>> /\ ObjectInFirstBlock(text))
        => /\ extracted[1].world_updates = json_loads(Strip(FirstInterior(text)))[1]
           /\ extracted[1].clean_response = Strip(WithoutAnyBlock(text))

\* C10, witness: a reply of two complete blocks holding different objects.
C10_Witness ==
    /\ extracted # <<>>
    /\ ObjectInFirstBlock(text)
    /\ NumberOfBlocks(text) = 2
    /\ \E p \in (FirstEnd(text) + 1)..Len(text) :
            /\ json_loads(<<text[p]>>) # <<>>
            /\ InBlock(text, p)
            /\ json_loads(<<text[p]>>)[1] # extracted[1].world_updates

----------------------------------------------------------------------------
(* Properties of the updater's branch ids (UpdaterSpec).                   *)
BranchesOf(file) == IF file = <<>> THEN <<>> ELSE file[1].alternative_endings

\* C9, as stated: the id given to a new branch differs from every id given
\* before; ids strictly increase in order of creation.
C9_IdsNeverReused ==
    \A a, b \in assignedIds : a.created < b.created => a.id < b.id

\* C9, amended: the id given to a new branch is the number of branches the
\* list holds at that moment plus one, so the branches of a list carry the
\* ids 1, 2, ... in list order; an id is given again once the list has
\* become shorter.
C9_IdIsPositionInList ==
    /\ \A i \in 1..Len(BranchesOf(updater)) : BranchesOf(updater)[i].id = i
    /\ \A i \in 1..Len(BranchesOf(dynFile)) : BranchesOf(dynFile)[i].id = i
    /\ \A a \in assignedIds : a.id \in 1..a.created

\* C9, witness: a list of two branches, written to the file, the second of
\* them appended after an id had been given a second time.
C9_Witness ==
    /\ Len(BranchesOf(dynFile)) = 2
    /\ BranchesOf(dynFile)[2].id = 2
    /\ \E a, b \in assignedIds : a.created < b.created /\ a.id = b.id

----------------------------------------------------------------------------
(* Properties of the extractor inside a chat turn (Spec).                  *)

\* The reply has no complete block, or its first block does not decode.
NoDecodableFirstBlock(t) ==
    \/ ~HasCompleteBlock(t)
    \/ json_loads(Strip(FirstInterior(t))) = <<>>

\* C11: when the reply has no complete block, or the interior of its first
\* block is not JSON, the extractor reports None, the turn leaves its copy
\* of the document as loaded and does not go on to save it, and (file
\* errors aside) the turn ends in the success response.
C11_NoBlockNoUpdate ==
    \A w \in Workers :
        (turn[w].model_returned /\ NoDecodableFirstBlock(turn[w].response_text))
            => /\ turn[w].world_updates = PyNone
               /\ turn[w].dynamic_world = turn[w].loaded
               /\ turn[w].pc # "save_world" /\ ~turn[w].wrote_world
               /\ (Ended(turn[w]) /\ ~turn[w].io_failed) => IsOk(turn[w])

\* C11, witness: a turn whose reply opened a block holding a directive and
\* never closed it has ended in the success response, the file untouched.
C11_Witness ==
    \E w \in Workers :
        /\ Ended(turn[w]) /\ IsOk(turn[w])
        /\ turn[w].response_text = <<"hello", BEGIN, ObjAcquireCloak>>
        /\ turn[w].world_updates = PyNone
        /\ dynFile = turn[w].loaded

----------------------------------------------------------------------------
(* Properties of the history given to the prompt composer (PromptSpec).    *)

\* The session's list as the request had it when it filtered it: the reply
\* is appended later.
HistoryAtLoad(t) ==
    IF t.model_returned THEN SubSeq(t.chat_history, 1, Len(t.chat_history) - 1)
    ELSE t.chat_history

\* The positions of h holding a user message or a message of character c.
Eligible(h, c) == {i \in 1..Len(h) : h[i].sender = "user" \/ h[i].character = c}

\* The request loaded the document and went on to compose the prompt.
Composed(t) == t.prompt # <<>>

\* C12: the history given to create_character_prompt holds only user
\* messages and messages of the active character, in their original order,
\* and is exactly the last 10 of those (all of them when there are fewer).
C12_LastTenOfOwnHistory ==
    \A w \in Workers :
        Composed(turn[w]) =>
            LET h == HistoryAtLoad(turn[w])
                e == Eligible(h, turn[w].character)
                p == turn[w].character_chat_history
                m == IF Cardinality(e) <= 10 THEN Cardinality(e) ELSE 10
            IN  /\ Len(p) = m
                /\ \A j \in 1..m :
                      \E i \in e : /\ Cardinality({x \in e : x >= i}) = m - j + 1
                                   /\ p[j] = h[i]
                /\ \A j \in 1..m : p[j].sender = "user" \/ p[j].character = turn[w].character

\* C12, witness: a request for Ron on a session holding messages of Harry
\* and more than 10 messages that are the user's or Ron's: the composer gets
\* 10 messages, the new user message last, and the prompt carries them.
C12_Witness ==
    \E w \in Workers :
        LET h == HistoryAtLoad(turn[w])
        IN  /\ Composed(turn[w]) /\ turn[w].character = "Ron"
            /\ Cardinality(Eligible(h, "Ron")) > 10
            /\ \E i \in 1..Len(h) : h[i].character = "Harry"
            /\ Len(turn[w].character_chat_history) = 10
            /\ turn[w].character_chat_history[10] = UserMessage(turn[w].n)
            /\ turn[w].prompt[1].found /\ turn[w].prompt[1].history = turn[w].character_chat_history

----------------------------------------------------------------------------
(* Properties of reset_chat (ResetSpec).                                   *)

\* The request was received after the last reset completed.
AfterReset(t) == resetAt >= 0 /\ t.n > resetAt

\* C13, as stated: when a reset completes no document exists, and a chat
\* turn that follows it gets the setup-required response.
C13_ResetDeletesDocument ==
    /\ [][(\E removed \in BOOLEAN : reset_chat(removed)) => dynFile' = <<>>]_vars
    /\ [](\A w \in Workers :
            (AfterReset(turn[w]) /\ Ended(turn[w])) => turn[w].response = SetupRequired)

\* C13, amended: a reset empties the session's chat history and removes the
\* history file (or leaves it when the removal fails) and leaves the
\* document file as it is; a chat turn that follows it gets the
\* setup-required response only if there was no document before the reset.
C13_ResetKeepsDocument ==
    /\ [][(\E removed \in BOOLEAN : reset_chat(removed))
            => /\ dynFile' = dynFile
               /\ cookie' = <<>>
               /\ histFile' \in {<<>>, histFile}]_vars
    /\ [](\A w \in Workers :
            (AfterReset(turn[w]) /\ Ended(turn[w]) /\ dynFile # <<>>)
                => turn[w].response # SetupRequired)

\* C13, witness: after a turn that wrote both files a reset removed the
\* history, and the turn that followed found the document, changed by the
\* earlier turn, and ended in the success response.
C13_Witness ==
    \E w \in Workers :
        /\ AfterReset(turn[w]) /\ resetAt > 0
        /\ Ended(turn[w]) /\ IsOk(turn[w])
        /\ turn[w].loaded # <<>>
        /\ turn[w].loaded # <<NewDynamicWorld(KGCharacters, "Harry", "English")>>
        /\ Len(turn[w].chat_history) = 2

----------------------------------------------------------------------------
(* Properties of the handler's error handling (Spec).                      *)

\* C14: every failure inside a chat turn ends in the handler's own error
\* response: no request is answered by an exception that left chat().
C14_NoExceptionEscapes ==
    \A w \in Workers : turn[w].response # Uncaught

\* C15: with no document file, a chat turn ends in the setup-required
\* response (status 400) without a model call and without writing the
\* document or the history file.
C15_SetupRequiredTouchesNothing ==
    \A w \in Workers :
        /\ (dynFile = <<>> /\ turn[w].n > 0 /\ turn[w].pc \notin {"load"})
              => turn[w].response = SetupRequired
        /\ turn[w].response = SetupRequired
              => /\ turn[w].response[1].status = 400
                 /\ turn[w].model_calls = 0
                 /\ ~turn[w].model_raised /\ ~turn[w].model_returned
                 /\ turn[w].prompt = <<>>
                 /\ ~turn[w].wrote_world /\ ~turn[w].wrote_history
                 /\ dynFile = <<>> /\ histFile = <<>>

\* C15, witness: the second request in a row has ended in the
\* setup-required response, no file written.
C15_Witness ==
    \E w \in Workers :
        /\ Ended(turn[w]) /\ turn[w].n = 2
        /\ turn[w].response = SetupRequired
        /\ turn[w].model_calls = 0
        /\ dynFile = <<>> /\ histFile = <<>>

----------------------------------------------------------------------------
(* Properties of the order of a turn's steps (Spec).                       *)

\* The positions of step x in the log st.
StepsAt(st, x) == {i \in 1..Len(st) : st[i] = x}
\* Every x comes before every y.
Before(st, x, y) == \A i \in StepsAt(st, x), j \in StepsAt(st, y) : i < j
\* The steps that append to the chat history, in the session and in the file.
HistorySteps == {"append_user", "append_reply", "save_history"}

\* C16, as stated: in a successful turn the steps come in the order load,
\* compose, call, extract, apply, persist, append history, respond: nothing
\* is appended to the chat history before the document is loaded and the
\* turn's mutation persisted.
C16_HistoryAfterLoadAndPersist ==
    \A w \in Workers :
        (Ended(turn[w]) /\ IsOk(turn[w])) =>
            LET st == turn[w].steps
            IN  /\ Before(st, "load", "compose") /\ Before(st, "compose", "call")
                /\ Before(st, "call", "extract") /\ Before(st, "extract", "apply")
                /\ Before(st, "apply", "save_world")
                /\ \A h \in HistorySteps :
                      /\ Before(st, "load", h) /\ Before(st, "save_world", h)
                      /\ Before(st, h, "respond")

\* C16, amended: in a successful turn the steps come in the order: user
\* message appended to the session's history, load, compose, call, extract,
\* reply appended to the session's history, then (when there is a
\* directive) apply and save of the document, then the write of the
\* history file, then the response.  Only the history file is written
\* after the load and after the document is saved.
C16_StepsInOrder ==
    \A w \in Workers :
        (Ended(turn[w]) /\ IsOk(turn[w])) =>
            turn[w].steps =
                <<"append_user", "load", "compose", "call", "extract", "append_reply">>
                \o (IF turn[w].world_updates.truthy THEN <<"apply", "save_world">> ELSE <<>>)
                \o <<"save_history", "respond">>

\* C16, witness: a successful turn that changed the document and wrote
\* both files.
C16_Witness ==
    \E w \in Workers :
        /\ Ended(turn[w]) /\ IsOk(turn[w]) /\ Mutated(turn[w])
        /\ StepsAt(turn[w].steps, "save_world") # {}
        /\ dynFile = turn[w].dynamic_world
        /\ histFile = <<turn[w].chat_history>>

----------------------------------------------------------------------------
(* Properties of the mutator on records of the same name (MutatorSpec).    *)

\* Record d is record c but for the key a directive of type ty is about.
SameExceptTarget(c, d, ty) ==
    CASE ty \in {"item_acquired", "item_lost"} ->
            [d EXCEPT !.items = c.items, !.has_items = c.has_items] = c
      [] ty \in {"skill_acquired", "skill_lost"} ->
            [d EXCEPT !.skills_or_powers = c.skills_or_powers, !.has_skills = c.has_skills] = c
      [] ty = "location_change" ->
            [d EXCEPT !.current_location = c.current_location] = c
      [] OTHER -> d = c

\* C17: a directive changes at most the first record of its name, and of
\* that record only the key it is about (items, skills_or_powers or
\* current_location); every other record, later records of the same name
\* included, and the rest of the document stay as they were.
C17_OnlyFirstMatchChanged ==
    mLast # <<>> =>
        LET wu == mLast[1]
            before == mPrev.characters
            after == mDoc.characters
        IN  /\ Len(after) = Len(before)
            /\ [mDoc EXCEPT !.characters = before] = mPrev
            /\ \A j \in 1..Len(before) :
                  IF /\ before[j].name = wu.character
                     /\ \A k \in 1..(j-1) : before[k].name # wu.character
                  THEN SameExceptTarget(before[j], after[j], wu.update_type)
                  ELSE after[j] = before[j]

\* C17, witness: of two records named Harry the first was changed by a
\* directive naming Harry and the second was not.
C17_Witness ==
    /\ mLast # <<>> /\ mLast[1].character = "Harry"
    /\ Len(mPrev.characters) >= 2
    /\ mPrev.characters[1].name = "Harry" /\ mPrev.characters[2].name = "Harry"
    /\ mDoc.characters[1] # mPrev.characters[1]
    /\ mDoc.characters[2] = mPrev.characters[2]

----------------------------------------------------------------------------
(* Properties of the updater's document (UpdaterSpec).                     *)

\* C18: the documents start with duplicate-free items lists; after any
\* sequence of updates no character's items list holds an entry twice.
C18_UpdaterKeepsItemsDistinct ==
    \A f \in {updater, dynFile} :
        f # <<>> => \A i \in 1..Len(f[1].characters) : NoDuplicates(ItemsOf(f[1].characters[i]))

\* C19: every call of update_based_on_user_response, whatever the analysis
\* and whether or not the character is in the document, leaves main_events
\* longer by exactly one entry, the new one last and tagged user_generated,
\* and the file holding the updater's document.
C19_OneEventPerCallThenSave ==
    [][\A r \in UserResponses, c \in CurrentCharacters, k \in Consequences :
          update_based_on_user_response(r, c, k) =>
              LET old == updater[1].main_events
                  new == updater'[1].main_events
              IN  /\ Len(new) = Len(old) + 1
                  /\ SubSeq(new, 1, Len(old)) = old
                  /\ new[Len(new)].user_generated = TRUE
                  /\ new[Len(new)].description = r
                  /\ dynFile' = updater']_vars

\* C19, witness: two calls for a character the document does not have
\* (no record was touched) have left two events, saved.
C19_Witness ==
    /\ updater # <<>> /\ dynFile = updater
    /\ updater[1].characters = KGCharacters
    /\ Len(updater[1].main_events) = 2
    /\ \A i \in 1..2 : updater[1].main_events[i].user_generated = TRUE

\* C20: an update for a character of the document appends one line to its
\* emotional_state_trends and one to its character_arc: the old value of
\* each is a strict prefix of the new one; no record loses text.
C20_TextFieldsOnlyGrow ==
    [][\A r \in UserResponses, c \in CurrentCharacters, k \in Consequences :
          update_based_on_user_response(r, c, k) =>
              LET old == updater[1].characters
                  new == updater'[1].characters
              IN  /\ Len(new) = Len(old)
                  /\ \A i \in 1..Len(old) :
                        /\ IsPrefix(old[i].emotional_state_trends, new[i].emotional_state_trends)
                        /\ IsPrefix(old[i].character_arc, new[i].character_arc)
                        /\ (old[i].name = c /\ \A j \in 1..(i-1) : old[j].name # c)
                              => /\ Len(new[i].emotional_state_trends)
                                      = Len(old[i].emotional_state_trends) + 1
                                 /\ Len(new[i].character_arc) = Len(old[i].character_arc) + 1
                                 /\ new[i].emotional_state_trends[Len(new[i].emotional_state_trends)].text
                                      = k.emotional_impact
                                 /\ new[i].character_arc[Len(new[i].character_arc)].text
                                      = k.arc_development]_vars

\* C20, witness: Harry's two text fields hold two lines each, the first
\* line still the one of the first update.
C20_Witness ==
    /\ updater # <<>>
    /\ \E i \in 1..Len(updater[1].characters) :
          LET c == updater[1].characters[i]
          IN  /\ c.name = "Harry"
              /\ Len(c.emotional_state_trends) = 2 /\ Len(c.character_arc) = 2
              /\ c.emotional_state_trends[1].at < c.emotional_state_trends[2].at
              /\ c.character_arc[1].at < c.character_arc[2].at

----------------------------------------------------------------------------
(* Properties of the chat-history file (Spec).                             *)

\* The step by which the response of request w leaves.
Responds(w) == turn[w].pc = "respond" /\ turn'[w].pc = "idle"

\* The step by which request w writes the history file.
SavesHistory(w) == turn[w].pc = "save_history" /\ turn'[w].wrote_history

\* The list of request w as the claim has it: what the request found in the
\* session, then its user message, then the cleaned reply of its character.
FoundPlusTurn(t) ==
    t.found \o <<UserMessage(t.n),
                 CharacterMessage(t.n, t.character, CleanResponse(t.response_text))>>

\* C21, as stated: when a successful turn answers, the history file holds
\* exactly the turn's list, which is the session's list before the turn
\* followed by the user message and the cleaned reply, and the session
\* holds it from then on.
C21_FileHoldsSessionHistory ==
    [][\A w \in Workers :
          (Responds(w) /\ IsOk(turn[w]))
              => /\ turn[w].chat_history = FoundPlusTurn(turn[w])
                 /\ histFile = <<turn[w].chat_history>>
                 /\ histFile' = histFile
                 /\ cookie' = <<turn[w].chat_history>>]_vars

\* C21, amended: a successful turn writes to the history file exactly its
\* own list, which is the list its request found in the session followed by
\* its user message and then the cleaned reply (two entries added, none
\* removed or reordered), and leaves that list in the session when it
\* answers.  The file keeps it until the next write: when requests of one
\* session overlap, the file holds the list of the last writer only.
C21_TurnWritesItsOwnList ==
    [][\A w \in Workers :
          /\ SavesHistory(w)
                => /\ turn[w].chat_history = FoundPlusTurn(turn[w])
                   /\ histFile' = <<turn[w].chat_history>>
          /\ (Responds(w) /\ IsOk(turn[w]))
                => /\ turn[w].chat_history = FoundPlusTurn(turn[w])
                   /\ cookie' = <<turn[w].chat_history>>]_vars

\* C21, witness: the second successful turn of a session has answered; the
\* file and the session hold the four messages of the two turns.
C21_Witness ==
    \E w \in Workers :
        /\ Ended(turn[w]) /\ IsOk(turn[w])
        /\ Len(turn[w].chat_history) = 4
        /\ turn[w].chat_history[1].sender = "user"
        /\ turn[w].chat_history[2].sender = "character"
        /\ turn[w].chat_history[2].timestamp = turn[w].chat_history[1].timestamp
        /\ turn[w].chat_history[3] = UserMessage(turn[w].n)
        /\ Len(turn[w].found) = 2
        /\ histFile = <<turn[w].chat_history>>
        /\ cookie = histFile

----------------------------------------------------------------------------
(* Properties of the user block (Spec).                                    *)

\* C22: no step of a chat turn changes the user block of the document file:
\* the file stays, and user.language and user.character_played stay what
\* character selection wrote.
C22_UserBlockUntouched ==
    [][dynFile # <<>> => (dynFile' # <<>> /\ dynFile'[1].user = dynFile[1].user)]_vars

\* C22, witness: a turn has changed a character record and saved the
\* document, the user block being the one written at selection.
C22_Witness ==
    \E w \in Workers :
        /\ Ended(turn[w]) /\ Mutated(turn[w]) /\ turn[w].wrote_world
        /\ dynFile = turn[w].dynamic_world
        /\ dynFile[1].characters # KGCharacters
        /\ dynFile[1].user = [language |-> "English", character_played |-> "Harry"]

----------------------------------------------------------------------------
(* Properties of a ChatInterface session (IfaceSpec).                      *)
UserEntries(history) ==
    Cardinality({i \in 1..Len(history) : history[i].type = "user"})
UpdaterCalled == nUpdates' = nUpdates + 1
Reports(kind) == conversation_history' = Append(conversation_history, Entry("system", kind))
IfaceCommands == {r \in IfaceInputs : str_lower(r) \in {"quit", "status", "progress", "endings"}}

\* C23: every call of process_user_input that updates and saves the document
\* also appends a story entry and adds one to story_progress, after which
\* story_progress is the number of user entries recorded.
C23_UpdateAddsStoryAndProgress ==
    [][UpdaterCalled =>
          /\ conversation_history'[Len(conversation_history')].type = "story"
          /\ story_progress' = story_progress + 1
          /\ story_progress' = UserEntries(conversation_history')]_vars

\* C24: what the endings and progress commands report is what the updater's
\* document holds: every branch and every event added by the updates so far.
C24_ReportsShowUpdates ==
    [][/\ Reports("endings") =>
            returned'.data = <<generate_alternative_ending_preview(updater[1], session_character)>>
       /\ Reports("progress") => returned'.data = <<get_story_progress(updater[1])>>]_vars

\* C30: a call of process_user_input with quit, status, progress or endings,
\* in any letter case, does not call the updater and leaves the document (in
\* the file and in the updater), story_progress and the number of user
\* entries as they were; it adds nothing but one system entry, and adds it
\* whenever the handler returns.
C30_CommandsOnlyAddSystemEntry ==
    [][\A r \in IfaceCommands :
          (\E k \in Consequences, io_ok \in BOOLEAN : process_user_input(r, k, io_ok)) =>
              /\ UNCHANGED <<dynFile, updater, nUpdates, assignedIds, story_progress>>
              /\ UserEntries(conversation_history') = UserEntries(conversation_history)
              /\ \/ /\ returned'.kind = str_lower(IF str_lower(r) = "quit" THEN "farewell" ELSE r)
                    /\ Reports(IF str_lower(r) = "quit" THEN "farewell" ELSE str_lower(r))
                 \/ /\ returned'.kind \in {"raised", "not_initialized"}
                    /\ conversation_history' = conversation_history]_vars

\* C30, witness: after two user inputs that were recorded, a command given
\* in capitals has added its system entry and nothing else.
C30_Witness ==
    /\ returned.kind = "endings"
    /\ UserEntries(conversation_history) = 2
    /\ nUpdates = 2
    /\ story_progress = 0
    /\ conversation_history[Len(conversation_history)] = Entry("system", "endings")
    /\ dynFile = updater

----------------------------------------------------------------------------
(* Properties of the response's world_updated flag (Spec).                 *)

\* C25: the world_updated flag of a successful response is true exactly
\* when the turn changed the document and saved it; a turn whose directive
\* was empty, of unknown type, for no character of the document or already
\* in effect answers false.
C25_FlagMeansChangedAndSaved ==
    \A w \in Workers :
        (Ended(turn[w]) /\ IsOk(turn[w])) =>
            (turn[w].response[1].world_updated
                <=> (Mutated(turn[w]) /\ turn[w].wrote_world))

\* C26: a turn whose character matches no record of the loaded document
\* issues no model call and ends with the error response.
C26_UnknownCharacterNotSent ==
    \A w \in Workers :
        (/\ turn[w].n > 0
         /\ turn[w].loaded # <<>>
         /\ FindCharacter(turn[w].loaded[1].characters, turn[w].character) = 0)
            => /\ turn[w].model_calls = 0
               /\ Ended(turn[w]) => IsError(turn[w])

----------------------------------------------------------------------------
(* Properties of the lists kept beside the character records (Spec).       *)
AggregateItems(characters)  == [i \in 1..Len(characters) |-> ItemsOf(characters[i])]
AggregateSkills(characters) == [i \in 1..Len(characters) |-> SkillsOf(characters[i])]

\* C27, as stated: at setup and after every chat turn that saved the
\* document, the i-th list of items and the i-th list of skills kept beside
\* the records are the items and the skills of the i-th character record.
C27_AggregatesFollowCharacters ==
    dynFile # <<>> =>
        /\ dynFile[1].items = AggregateItems(dynFile[1].characters)
        /\ dynFile[1].skills_or_powers = AggregateSkills(dynFile[1].characters)

\* C27, amended: the lists kept beside the records are those of the records
\* at setup, and they equal the records' lists until a chat turn has saved
\* the document; no chat turn changes them.
C27_AggregatesStayAsAtSetup ==
    dynFile # <<>> =>
        /\ dynFile[1].items = AggregateItems(KGCharacters)
        /\ dynFile[1].skills_or_powers = AggregateSkills(KGCharacters)
        /\ dynWriter = 0 => C27_AggregatesFollowCharacters

\* C27, witness: a chat turn has saved a document in which Harry holds the
\* cloak, and the list beside the records still holds the wand alone.
C27_Witness ==
    /\ dynFile # <<>>
    /\ dynWriter > 0
    /\ ItemsOf(dynFile[1].characters[1]) = <<"wand", "cloak">>
    /\ dynFile[1].items[1] = <<"wand">>

----------------------------------------------------------------------------
(* Properties of character selection (SelectSpec).                         *)

\* C28: once a selection has written the document, user.character_played is
\* the name of at least one of its character records.
C28_PlayedIsARecord ==
    dynFile # <<>> =>
        \E i \in 1..Len(dynFile[1].characters) :
            dynFile[1].characters[i].name = dynFile[1].user.character_played

----------------------------------------------------------------------------
(* Properties of a reset that meets a running turn (ResetSpec).            *)
Resets == \E removed \in BOOLEAN : reset_chat(removed)

\* C29, as stated: when a reset has returned the history file is absent,
\* and it is next written by a turn that started after the reset: a turn
\* that was running during the reset does not write it back.
C29_ResetIsFinal ==
    [][/\ Resets => histFile' = <<>>
       /\ (resetAt >= 0 /\ histFile' # histFile)
            => \E w \in Workers : SavesHistory(w) /\ AfterReset(turn[w])]_vars

\* C29, amended: a reset removes the history file, or leaves it when the
\* removal fails; every other change of the file is one turn saving its own
\* list, which is what its request found in the session and its two
\* messages, whether the turn started before the reset or after it.
C29_TurnsRewriteHistoryAfterReset ==
    [][/\ \A removed \in BOOLEAN :
            reset_chat(removed) => histFile' = IF removed THEN <<>> ELSE histFile
       /\ (histFile' # histFile /\ ~Resets)
            => \E w \in Workers :
                  SavesHistory(w) /\ histFile' = <<FoundPlusTurn(turn[w])>>]_vars

\* C29, witness: a reset removed the history file while a turn was waiting
\* for the model; the turn then wrote the file again, with the two messages
\* of the turn before the reset and its own two.
C29_Witness ==
    \E w \in Workers :
        /\ Ended(turn[w]) /\ IsOk(turn[w])
        /\ turn[w].steps = <<"append_user", "load", "compose", "reset", "call", "extract",
                             "append_reply", "save_history", "respond">>
        /\ Len(turn[w].found) = 2
        /\ turn[w].n = resetAt
        /\ histFile = <<FoundPlusTurn(turn[w])>>
        /\ cookie = histFile

====
